---- MODULE Spec2Model ----
(***************************************************************************)
(* A model of the nginx pool allocator, src/core/ngx_palloc.c.            *)
(*                                                                         *)
(* Addresses are integers.  The block headers are kept in blk (one record  *)
(* per block, keyed by the block's address), every other word the program  *)
(* reads back (large nodes, cleanup nodes, the descriptor of a file        *)
(* cleanup) is kept in mem, a map from the word's address to its value, so *)
(* that two objects carved at the same address share their words exactly   *)
(* as they do in the pool's memory.  Structure layouts are those of an    *)
(* LP64 build.  size_t is SizeTBits wide (TLC's integers are 32 bits).     *)
(***************************************************************************)
EXTENDS Integers, Sequences, FiniteSets, TLC

(***************************************************************************)
(* Values the program fixes                                                *)
(***************************************************************************)
NULL == 0
NGX_OK == 0
NGX_DECLINED == -5

SizeofPool == 80
SizeofPoolData == 32
SizeofLarge == 16
SizeofCleanup == 24
SizeofCleanupFile == 24
NGX_ALIGNMENT == 8
NGX_POOL_ALIGNMENT == 16
NGX_MAX_ALLOC_FROM_POOL == 4095
SizeTBits == 16
SizeTMod == 2 ^ SizeTBits

\* field offsets: ngx_pool_large_t {next, alloc},
\* ngx_pool_cleanup_t {handler, data, next}, ngx_pool_cleanup_file_t {fd, ..}
OffLargeNext == 0
OffLargeAlloc == 8
OffHandler == 0
OffData == 8
OffCleanupNext == 16
OffFd == 0

\* the addresses of the two handlers this file defines
NgxPoolCleanupFile == 1
NgxPoolDeleteFile == 2

(***************************************************************************)
(* Bounds and the inputs drawn by the callers                              *)
(***************************************************************************)
\* allocations the underlying allocator grants before it reports exhaustion
MaxHeap == 3
\* small allocations made between two resets
MaxRanges == 3
\* resets in a run
MaxResets == 1
\* handler invocations recorded
MaxInvoked == 3
\* cleanup nodes added in a run
MaxCleanups == 2
\* allocations granted in the runs that build a long list or chain
MaxHeapLong == 8

HeapBase == 64 * NGX_POOL_ALIGNMENT
\* pool sizes that hold the ngx_pool_t and are multiples of NGX_ALIGNMENT
PoolSizes == {136, 152}
\* a pool size that is not a multiple of NGX_ALIGNMENT
OddPoolSizes == {124}
AllocSizes == {44, 80}
\* sizes no larger than pool->max of any of the pools above
SmallSizes == {20, 44}
CleanupSizes == {0, SizeofCleanupFile}
MemalignSizes == {80}
MemalignAlignments == {32}
Fds == {3, 4}
Handlers == {NgxPoolCleanupFile, NgxPoolDeleteFile}
\* which call into the underlying allocator fails (0: none)
FailAts == 0 .. 2
\* a pool whose root block holds seven large nodes, and a size above its max
LargePoolSizes == {200}
LargeSizes == {128}
\* a pool whose blocks hold one allocation of the larger size each
GrowPoolSizes == {136}
GrowSizes == {24, 56}
\* the larger of GrowSizes, and a size above the max of GrowPoolSizes
ChainSizes == {56, 80}
\* growths after which the root's failed counter is 5
AgedGrowths == 6
\* the value at which if (p->d.failed++ > 4) leaves a counter
FailedLimit == 6

VARIABLES
  phase,     \* "none", "live", "cleanup", "large", "blocks", "destroyed",
             \* "hung", "crashed"
  pool,      \* the root block (the ngx_pool_t)
  max,       \* pool->max
  current,   \* pool->current
  large,     \* pool->large
  cleanup,   \* pool->cleanup
  blk,       \* block address -> [last, end, next, failed]  (ngx_pool_data_t)
  mem,       \* word address -> value
  brk,       \* the underlying allocator's next free address
  live,      \* addresses obtained from the underlying allocator, not released
  nheap,     \* allocations granted so far
  freed,     \* every pointer passed to ngx_free, in order
  invoked,   \* every handler invocation <<by, node, handler, data>>, in order
  ranges,    \* <<m, size, align>> of each small allocation since the reset
  registered,\* <<node, nreset>> of each ngx_pool_cleanup_add that succeeded
  handles,   \* the cleanup handles the caller holds
  nreset,    \* resets so far
  dc,        \* ngx_destroy_pool: the loop variable c, l or p
  dn,        \* ngx_destroy_pool: the loop variable n
  quota,     \* allocations the underlying allocator grants in this run
  call       \* the last call: [op, arg, ret, calls, afterFree]

vars == <<phase, pool, max, current, large, cleanup, blk, mem, brk, live,
          nheap, freed, invoked, ranges, registered, handles, nreset, dc, dn,
          quota, call>>

(***************************************************************************)
(* Helpers                                                                 *)
(***************************************************************************)
ngx_align_ptr(p, a) == ((p + (a - 1)) \div a) * a

\* (size_t) x
SizeT(x) == x % SizeTMod

Rd(m, a) == IF a \in DOMAIN m THEN m[a] ELSE NULL

Wr(m, a, v) == [x \in DOMAIN m \cup {a} |-> IF x = a THEN v ELSE m[x]]

Max2(a, b) == IF a > b THEN a ELSE b

\* the element of a singleton
Only(S) == CHOOSE x \in S : TRUE

\* the pool's state as the operators below pass it along
St ==
  [pool |-> pool, max |-> max, current |-> current, large |-> large,
   cleanup |-> cleanup, blk |-> blk, mem |-> mem, brk |-> brk, live |-> live,
   nheap |-> nheap, freed |-> freed, invoked |-> invoked, ranges |-> ranges,
   quota |-> quota, calls |-> 0, failAt |-> 0]

(***************************************************************************)
(* The underlying allocator: it never hands out an address twice, fails    *)
(* when told to (failAt) and when quota allocations were granted.          *)
(***************************************************************************)
HeapGrant(s, alignment, size) ==
  LET n == s.calls + 1
      a == ngx_align_ptr(s.brk, alignment)
  IN IF n = s.failAt \/ s.nheap >= s.quota
       THEN [s |-> [s EXCEPT !.calls = n], ret |-> NULL]
       ELSE [s |-> [s EXCEPT !.calls = n, !.brk = a + Max2(size, 1),
                             !.live = @ \cup {a}, !.nheap = @ + 1],
             ret |-> a]

ngx_memalign(s, alignment, size) == HeapGrant(s, alignment, size)

ngx_alloc(s, size) == HeapGrant(s, NGX_POOL_ALIGNMENT, size)

\* a release that reaches the underlying allocator twice
FreeTwice(s, p) ==
  [s EXCEPT !.calls = @ + 2,
            !.freed = IF p = NULL THEN @ ELSE Append(Append(@, p), p),
            !.live = @ \ {p}]

\* ngx_free(NULL) does nothing and is not recorded in freed
ngx_free(s, p) ==
  [s EXCEPT !.calls = @ + 1,
            !.freed = IF p = NULL THEN @ ELSE Append(@, p),
            !.live = @ \ {p}]

(***************************************************************************)
(* ngx_palloc_block, ngx_palloc_small                                      *)
(***************************************************************************)
\* a walk that never moves pool->current
RECURSIVE FailedWalkStays(_, _, _)
FailedWalkStays(b, p, cur) ==
  IF b[p].next = NULL
    THEN [blk |-> b, current |-> cur, tail |-> p]
    ELSE FailedWalkStays([b EXCEPT ![p].failed = @ + 1], b[p].next, cur)

\* a walk that moves pool->current one pass earlier
RECURSIVE FailedWalkEarly(_, _, _)
FailedWalkEarly(b, p, cur) ==
  IF b[p].next = NULL
    THEN [blk |-> b, current |-> cur, tail |-> p]
    ELSE FailedWalkEarly([b EXCEPT ![p].failed = @ + 1], b[p].next,
                         IF b[p].failed + 1 > 4 THEN b[p].next ELSE cur)

\* for (p = pool->current; p->d.next; p = p->d.next)
\*     if (p->d.failed++ > 4) pool->current = p->d.next;
RECURSIVE FailedWalk(_, _, _)
FailedWalk(b, p, cur) ==
  IF b[p].next = NULL
    THEN [blk |-> b, current |-> cur, tail |-> p]
    ELSE FailedWalk([b EXCEPT ![p].failed = @ + 1], b[p].next,
                    IF b[p].failed > 4 THEN b[p].next ELSE cur)

\* a growth that leaves pool->current at the block it appends
PallocBlockCurrentNew(s, size) ==
  LET psize == SizeT(s.blk[s.pool].end - s.pool)
      r == ngx_memalign(s, NGX_POOL_ALIGNMENT, psize)
  IN IF r.ret = NULL
       THEN [s |-> r.s, ret |-> NULL]
       ELSE LET new == r.ret
                m == ngx_align_ptr(new + SizeofPoolData, NGX_ALIGNMENT)
                w == FailedWalk(r.s.blk, r.s.current, r.s.current)
                hdr == [last |-> m + size, end |-> new + psize,
                        next |-> NULL, failed |-> 0]
                b2 == [x \in DOMAIN w.blk \cup {new} |->
                         IF x = new THEN hdr
                         ELSE IF x = w.tail THEN [w.blk[x] EXCEPT !.next = new]
                         ELSE w.blk[x]]
            IN [s |-> [r.s EXCEPT !.blk = b2,
                                  !.current = IF w.current = r.s.current
                                                THEN w.current ELSE new],
                ret |-> m]

ngx_palloc_block(s, size) ==
  LET psize == SizeT(s.blk[s.pool].end - s.pool)
      r == ngx_memalign(s, NGX_POOL_ALIGNMENT, psize)
  IN IF r.ret = NULL
       THEN [s |-> r.s, ret |-> NULL]
       ELSE LET new == r.ret
                m == ngx_align_ptr(new + SizeofPoolData, NGX_ALIGNMENT)
                hdr == [last |-> m + size, end |-> new + psize,
                        next |-> NULL, failed |-> 0]
            IN Only({[s |-> [r.s EXCEPT
                               !.blk = [x \in DOMAIN w.blk \cup {new} |->
                                          IF x = new THEN hdr
                                          ELSE IF x = w.tail
                                            THEN [w.blk[x] EXCEPT !.next = new]
                                          ELSE w.blk[x]],
                               !.current = w.current],
                      ret |-> m]
                     : w \in {FailedWalk(r.s.blk, r.s.current,
                                         r.s.current)}})

\* the do-while of ngx_palloc_small: the block that serves the request and
\* the address m in it, <<NULL, NULL>> when the chain is exhausted
RECURSIVE SmallFit(_, _, _, _)
SmallFit(b, p, size, align) ==
  LET m == IF align THEN ngx_align_ptr(b[p].last, NGX_ALIGNMENT) ELSE b[p].last
  IN IF SizeT(b[p].end - m) >= size
       THEN <<p, m>>
       ELSE IF b[p].next = NULL THEN <<NULL, NULL>>
       ELSE SmallFit(b, b[p].next, size, align)

ngx_palloc_small(s, size, align) ==
  LET f == SmallFit(s.blk, s.current, size, align)
  IN IF f[1] # NULL
       THEN [s |-> [s EXCEPT !.blk[f[1]].last = f[2] + size,
                             !.ranges = Append(@, <<f[2], size, align>>)],
             ret |-> f[2]]
       ELSE LET g == ngx_palloc_block(s, size)
            IN IF g.ret = NULL THEN g
               ELSE [s |-> [g.s EXCEPT
                              !.ranges = Append(@, <<g.ret, size, align>>)],
                     ret |-> g.ret]

(***************************************************************************)
(* ngx_palloc_large, ngx_palloc, ngx_pnalloc, ngx_pmemalign, ngx_pfree     *)
(***************************************************************************)
\* a scan that never finds a vacated node
LargeSlotNone(m, l, n) == NULL

\* a scan that gives up one node earlier
RECURSIVE LargeSlotFour(_, _, _)
LargeSlotFour(m, l, n) ==
  IF l = NULL THEN NULL
  ELSE IF Rd(m, l + OffLargeAlloc) = NULL THEN l
  ELSE IF n > 2 THEN NULL
  ELSE LargeSlotFour(m, Rd(m, l + OffLargeNext), n + 1)

\* for (large = pool->large; large; large = large->next) {
\*     if (large->alloc == NULL) return the slot;  if (n++ > 3) break; }
RECURSIVE LargeSlot(_, _, _)
LargeSlot(m, l, n) ==
  IF l = NULL THEN NULL
  ELSE IF Rd(m, l + OffLargeAlloc) = NULL THEN l
  ELSE IF n > 3 THEN NULL
  ELSE LargeSlot(m, Rd(m, l + OffLargeNext), n + 1)

\* a link that leaves large->alloc unset
LinkLargeNoAlloc(s, node, p) ==
  [s EXCEPT !.mem = Wr(@, node + OffLargeNext, s.large), !.large = node]

\* large->alloc = p; large->next = pool->large; pool->large = large;
LinkLarge(s, node, p) ==
  [s EXCEPT !.mem = Wr(Wr(@, node + OffLargeAlloc, p),
                       node + OffLargeNext, s.large),
            !.large = node]

\* ngx_palloc_large once p = ngx_alloc(size, pool->log) has returned r
LargeAttach(r) ==
  LET p == r.ret
      slot == LargeSlot(r.s.mem, r.s.large, 0)
  IN IF p = NULL THEN [s |-> r.s, ret |-> NULL]
     ELSE IF slot # NULL
       THEN [s |-> [r.s EXCEPT !.mem = Wr(@, slot + OffLargeAlloc, p)],
             ret |-> p]
     ELSE Only({IF r2.ret = NULL
                  THEN [s |-> ngx_free(r2.s, p), ret |-> NULL]
                  ELSE [s |-> LinkLarge(r2.s, r2.ret, p), ret |-> p]
                : r2 \in {ngx_palloc_small(r.s, SizeofLarge, TRUE)}})

ngx_palloc_large(s, size) ==
  Only({LargeAttach(r) : r \in {ngx_alloc(s, size)}})

ngx_palloc(s, size) ==
  IF size <= s.max THEN ngx_palloc_small(s, size, TRUE)
  ELSE ngx_palloc_large(s, size)

ngx_pnalloc(s, size) ==
  IF size <= s.max THEN ngx_palloc_small(s, size, FALSE)
  ELSE ngx_palloc_large(s, size)

\* an ngx_pmemalign that keeps the payload when it has no node for it
PmemalignLeak(s, size, alignment) ==
  LET r == ngx_memalign(s, alignment, size)
      p == r.ret
      r2 == ngx_palloc_small(r.s, SizeofLarge, TRUE)
  IN IF p = NULL THEN [s |-> r.s, ret |-> NULL]
     ELSE IF r2.ret = NULL
       THEN [s |-> r2.s, ret |-> NULL]
     ELSE [s |-> LinkLarge(r2.s, r2.ret, p), ret |-> p]

\* p = ngx_palloc(pool, size); if (p) ngx_memzero(p, size);
ngx_pcalloc(s, size) ==
  Only({IF r.ret = NULL THEN r
        ELSE [s |-> [r.s EXCEPT
                       !.mem = [a \in DOMAIN @ |->
                                  IF r.ret <= a /\ a < r.ret + size
                                    THEN 0 ELSE @[a]]],
              ret |-> r.ret]
        : r \in {ngx_palloc(s, size)}})

ngx_pmemalign(s, size, alignment) ==
  LET r == ngx_memalign(s, alignment, size)
      p == r.ret
      r2 == ngx_palloc_small(r.s, SizeofLarge, TRUE)
  IN IF p = NULL THEN [s |-> r.s, ret |-> NULL]
     ELSE IF r2.ret = NULL
       THEN [s |-> ngx_free(r2.s, p), ret |-> NULL]
     ELSE [s |-> LinkLarge(r2.s, r2.ret, p), ret |-> p]

\* the nodes of a list in pool memory from head l, following the link at
\* offset off, up to its end or to the first node met a second time
RECURSIVE Walk(_, _, _, _)
Walk(m, l, off, seen) ==
  IF l = NULL THEN [nodes |-> seen, cyclic |-> FALSE]
  ELSE IF \E i \in 1 .. Len(seen) : seen[i] = l
    THEN [nodes |-> seen, cyclic |-> TRUE]
  ELSE Walk(m, Rd(m, l + off), off, Append(seen, l))

LargeList(m, l) == Walk(m, l, OffLargeNext, <<>>)

CleanupList(m, c) == Walk(m, c, OffCleanupNext, <<>>)

\* the first index at which the sequence of booleans is TRUE, 0 when none
FirstTrue(seq) ==
  IF \E i \in 1 .. Len(seq) : seq[i]
    THEN CHOOSE i \in 1 .. Len(seq) : seq[i] /\ \A j \in 1 .. (i - 1) : ~seq[j]
    ELSE 0

\* an ngx_pfree that leaves the payload in its node
PfreeKeepsAlloc(s, p) ==
  LET w == LargeList(s.mem, s.large)
      i == FirstTrue([k \in 1 .. Len(w.nodes) |->
                        Rd(s.mem, w.nodes[k] + OffLargeAlloc) = p])
  IN IF i # 0
       THEN [s |-> ngx_free(s, p), ret |-> NGX_OK, hung |-> FALSE]
       ELSE [s |-> s, ret |-> NGX_DECLINED, hung |-> w.cyclic]

\* for (l = pool->large; l; l = l->next) if (p == l->alloc) {...}
\* hung: no node matches and the list is cyclic, the loop never ends
ngx_pfree(s, p) ==
  LET w == LargeList(s.mem, s.large)
      i == FirstTrue([k \in 1 .. Len(w.nodes) |->
                        Rd(s.mem, w.nodes[k] + OffLargeAlloc) = p])
  IN IF i # 0
       THEN [s |-> [ngx_free(s, p) EXCEPT
                      !.mem = Wr(@, w.nodes[i] + OffLargeAlloc, NULL)],
             ret |-> NGX_OK, hung |-> FALSE]
       ELSE [s |-> s, ret |-> NGX_DECLINED, hung |-> w.cyclic]

(***************************************************************************)
(* The cleanup chain                                                       *)
(***************************************************************************)
\* c->handler = NULL; c->next = p->cleanup; p->cleanup = c;
LinkCleanup(s, c) ==
  [s EXCEPT !.mem = Wr(Wr(@, c + OffHandler, NULL),
                       c + OffCleanupNext, s.cleanup),
            !.cleanup = c]

\* ngx_pool_cleanup_add once c = ngx_palloc(p, sizeof(ngx_pool_cleanup_t))
\* has returned r1; c->data = ngx_palloc(p, size) is stored before it is
\* tested
CleanupAddData(r1, size) ==
  LET c == r1.ret
      s0 == [r1.s EXCEPT !.mem = Wr(@, c + OffData, NULL)]
  IN IF c = NULL THEN [s |-> r1.s, ret |-> NULL]
     ELSE IF size # 0
       THEN Only({LET s2 == [r2.s EXCEPT !.mem = Wr(@, c + OffData, r2.ret)]
                  IN IF r2.ret = NULL THEN [s |-> s2, ret |-> NULL]
                     ELSE [s |-> LinkCleanup(s2, c), ret |-> c]
                  : r2 \in {ngx_palloc(r1.s, size)}})
     ELSE [s |-> LinkCleanup(s0, c), ret |-> c]

ngx_pool_cleanup_add(s, size) ==
  Only({CleanupAddData(r1, size) : r1 \in {ngx_palloc(s, SizeofCleanup)}})

\* c->handler == ngx_pool_cleanup_file, and cf = c->data has cf->fd == fd
FileMatch(m, c, fd) ==
  /\ Rd(m, c + OffHandler) = NgxPoolCleanupFile
  /\ Rd(m, Rd(m, c + OffData) + OffFd) = fd

\* c->handler == ngx_pool_cleanup_file and c->data is NULL: cf->fd is read
\* through a null pointer
FileNull(m, c) ==
  /\ Rd(m, c + OffHandler) = NgxPoolCleanupFile
  /\ Rd(m, c + OffData) = NULL

\* a run that leaves the handler of the node it ran in place
RunCleanupFileKeepHandler(s, fd) ==
  LET w == CleanupList(s.mem, s.cleanup)
      i == FirstTrue([k \in 1 .. Len(w.nodes) |->
                        FileMatch(s.mem, w.nodes[k], fd)])
      c == w.nodes[i]
  IN IF i = 0 THEN [s |-> s, end |-> IF w.cyclic THEN "hung" ELSE "live"]
     ELSE [s |-> [s EXCEPT
                    !.invoked = Append(@, <<"file", c, NgxPoolCleanupFile,
                                            Rd(s.mem, c + OffData)>>)],
           end |-> "live"]

\* end: "live" when the function returns, "crashed" when it reads cf->fd
\* through NULL before any node matches, "hung" when no node matches and
\* the chain is cyclic
ngx_pool_run_cleanup_file(s, fd) ==
  LET w == CleanupList(s.mem, s.cleanup)
      i == FirstTrue([k \in 1 .. Len(w.nodes) |->
                        \/ FileNull(s.mem, w.nodes[k])
                        \/ FileMatch(s.mem, w.nodes[k], fd)])
      c == w.nodes[i]
  IN IF i = 0 THEN [s |-> s, end |-> IF w.cyclic THEN "hung" ELSE "live"]
     ELSE IF FileNull(s.mem, c) THEN [s |-> s, end |-> "crashed"]
     ELSE [s |-> [s EXCEPT
                    !.invoked = Append(@, <<"file", c, NgxPoolCleanupFile,
                                            Rd(s.mem, c + OffData)>>),
                    !.mem = Wr(@, c + OffHandler, NULL)],
           end |-> "live"]

(***************************************************************************)
(* ngx_create_pool, ngx_reset_pool                                         *)
(***************************************************************************)
PoolMax(size) ==
  IF SizeT(size - SizeofPool) < NGX_MAX_ALLOC_FROM_POOL
    THEN SizeT(size - SizeofPool)
    ELSE NGX_MAX_ALLOC_FROM_POOL

ngx_create_pool(s, size) ==
  LET r == ngx_memalign(s, NGX_POOL_ALIGNMENT, size)
      p == r.ret
      hdr == [last |-> p + SizeofPool, end |-> p + size,
              next |-> NULL, failed |-> 0]
  IN IF p = NULL THEN [s |-> r.s, ret |-> NULL]
     ELSE [s |-> [r.s EXCEPT !.pool = p, !.blk = (p :> hdr),
                             !.max = PoolMax(size), !.current = p,
                             !.large = NULL, !.cleanup = NULL],
           ret |-> p]

\* the blocks from p along d.next
RECURSIVE BlockChain(_, _)
BlockChain(b, p) ==
  IF p = NULL THEN <<>> ELSE <<p>> \o BlockChain(b, b[p].next)

\* for (l = pool->large; l; l = l->next) if (l->alloc) ngx_free(l->alloc);
RECURSIVE FreeLarge(_, _, _)
FreeLarge(s, nodes, i) ==
  IF i > Len(nodes) THEN s
  ELSE LET a == Rd(s.mem, nodes[i] + OffLargeAlloc)
       IN FreeLarge(IF a # NULL THEN ngx_free(s, a) ELSE s, nodes, i + 1)

\* p->d.last = (u_char *) p + sizeof(ngx_pool_t); p->d.failed = 0;
ResetBlock(b, p) == [b[p] EXCEPT !.last = p + SizeofPool, !.failed = 0]

\* hung: the large list is cyclic, the first loop never ends
ngx_reset_pool(s) ==
  LET w == LargeList(s.mem, s.large)
      s1 == FreeLarge(s, w.nodes, 1)
      chain == BlockChain(s.blk, s.pool)
      InChain(x) == \E i \in 1 .. Len(chain) : chain[i] = x
      b2 == [x \in DOMAIN s.blk |->
               IF InChain(x) THEN ResetBlock(s.blk, x) ELSE s.blk[x]]
  IN IF w.cyclic THEN [s |-> s1, hung |-> TRUE]
     ELSE [s |-> [s1 EXCEPT !.blk = b2, !.current = s.pool,
                            !.large = NULL, !.ranges = <<>>],
           hung |-> FALSE]

(***************************************************************************)
(* The state machine: one action per public operation, called by a single  *)
(* owner; ngx_destroy_pool one loop iteration at a time.                   *)
(***************************************************************************)
Start(q) ==
  /\ phase = "none"
  /\ pool = NULL /\ max = 0 /\ current = NULL
  /\ large = NULL /\ cleanup = NULL
  /\ blk = <<>> /\ mem = <<>>
  /\ brk = HeapBase /\ live = {} /\ nheap = 0
  /\ freed = <<>> /\ invoked = <<>> /\ ranges = <<>>
  /\ registered = <<>> /\ handles = {}
  /\ nreset = 0 /\ dc = NULL /\ dn = NULL
  /\ quota = q
  /\ call = [op |-> "none", arg |-> 0, ret |-> 0, calls |-> 0,
             afterFree |-> FALSE]

Init == Start(MaxHeap)

\* the pool's fields and the allocator's, as s leaves them
Commit(s) ==
  /\ pool' = s.pool /\ max' = s.max /\ current' = s.current
  /\ large' = s.large /\ cleanup' = s.cleanup
  /\ blk' = s.blk /\ mem' = s.mem
  /\ brk' = s.brk /\ live' = s.live /\ nheap' = s.nheap
  /\ freed' = s.freed /\ invoked' = s.invoked /\ ranges' = s.ranges
  /\ quota' = s.quota

\* the call c was an ngx_pfree that released a payload
FreedPayload(c) == c.op = "pfree" /\ c.ret = NGX_OK /\ c.arg # NULL

Called(op, arg, ret, s) ==
  call' = [op |-> op, arg |-> arg, ret |-> ret, calls |-> s.calls,
           afterFree |-> FreedPayload(call)]

Failing(f) == [St EXCEPT !.failAt = f]

\* a large node is a small allocation too
InBounds(s) == Len(s.ranges) <= Max2(MaxRanges, s.quota)

Create(size, f) ==
  /\ phase = "none"
  /\ \E r \in {ngx_create_pool(Failing(f), size)} :
        /\ Commit(r.s)
        /\ Called("create", size, r.ret, r.s)
        /\ phase' = IF r.ret = NULL THEN "none" ELSE "live"
  /\ UNCHANGED <<registered, handles, nreset, dc, dn>>

Palloc(size, f) ==
  /\ phase = "live"
  /\ \E r \in {ngx_palloc(Failing(f), size)} :
        /\ InBounds(r.s)
        /\ Commit(r.s)
        /\ Called("palloc", size, r.ret, r.s)
  /\ UNCHANGED <<phase, registered, handles, nreset, dc, dn>>

Pnalloc(size, f) ==
  /\ phase = "live"
  /\ \E r \in {ngx_pnalloc(Failing(f), size)} :
        /\ InBounds(r.s)
        /\ Commit(r.s)
        /\ Called("pnalloc", size, r.ret, r.s)
  /\ UNCHANGED <<phase, registered, handles, nreset, dc, dn>>

Pcalloc(size, f) ==
  /\ phase = "live"
  /\ \E r \in {ngx_pcalloc(Failing(f), size)} :
        /\ InBounds(r.s)
        /\ Commit(r.s)
        /\ Called("pcalloc", size, r.ret, r.s)
  /\ UNCHANGED <<phase, registered, handles, nreset, dc, dn>>

Pmemalign(size, alignment, f) ==
  /\ phase = "live"
  /\ \E r \in {ngx_pmemalign(Failing(f), size, alignment)} :
        /\ InBounds(r.s)
        /\ Commit(r.s)
        /\ Called("pmemalign", size, r.ret, r.s)
  /\ UNCHANGED <<phase, registered, handles, nreset, dc, dn>>

\* the payloads attached to the large list
Attached(m, l) ==
  LET w == LargeList(m, l)
  IN {Rd(m, w.nodes[i] + OffLargeAlloc) : i \in 1 .. Len(w.nodes)} \ {NULL}

\* what the cleanup chain owns: the nodes handed out and their data
CleanupOwned ==
  {registered[i][1] : i \in 1 .. Len(registered)}
    \cup {Rd(mem, registered[i][1] + OffData) : i \in 1 .. Len(registered)}

\* the pointers a caller may pass to ngx_pfree: a payload it was given, one
\* it has freed already, a small allocation, NULL
PfreeArgs ==
  ((Attached(mem, large) \cup {freed[i] : i \in 1 .. Len(freed)}
      \cup {ranges[i][1] : i \in 1 .. Len(ranges)}) \ CleanupOwned) \cup {NULL}

Pfree(p) ==
  /\ phase = "live"
  /\ \E r \in {ngx_pfree(St, p)} :
        /\ Commit(r.s)
        /\ Called("pfree", p, r.ret, r.s)
        /\ phase' = IF r.hung THEN "hung" ELSE "live"
  /\ UNCHANGED <<registered, handles, nreset, dc, dn>>

CleanupAdd(size, f) ==
  /\ phase = "live"
  /\ Len(registered) < MaxCleanups
  /\ \E r \in {ngx_pool_cleanup_add(Failing(f), size)} :
        /\ Commit(r.s)
        /\ Called("cleanup_add", size, r.ret, r.s)
        /\ registered' = IF r.ret = NULL THEN registered
                                         ELSE Append(registered, <<r.ret, nreset>>)
        /\ handles' = IF r.ret = NULL THEN handles ELSE handles \cup {r.ret}
  /\ UNCHANGED <<phase, nreset, dc, dn>>

\* the caller fills in the node it was handed: c->handler = h, and the
\* descriptor in the ngx_pool_cleanup_file_t that c->data points to
SetHandler(c, h, fd) ==
  /\ phase = "live"
  /\ c \in handles
  /\ Rd(mem, c + OffData) # NULL
  /\ mem' = Wr(Wr(mem, c + OffHandler, h), Rd(mem, c + OffData) + OffFd, fd)
  /\ handles' = handles \ {c}
  /\ Called("set_handler", c, h, St)
  /\ UNCHANGED <<phase, pool, max, current, large, cleanup, blk, brk, live,
                 nheap, freed, invoked, ranges, registered, nreset, dc, dn,
                 quota>>

RunCleanupFile(fd) ==
  /\ phase = "live"
  /\ \E r \in {ngx_pool_run_cleanup_file(St, fd)} :
        /\ Commit(r.s)
        /\ Called("run_cleanup_file", fd, 0, r.s)
        /\ phase' = r.end
  /\ UNCHANGED <<registered, handles, nreset, dc, dn>>

\* the caller drops every pointer it holds into the pool: its handles too
Reset ==
  /\ phase = "live"
  /\ nreset < MaxResets
  /\ \E r \in {ngx_reset_pool(St)} :
        /\ Commit(r.s)
        /\ Called("reset", 0, 0, r.s)
        /\ phase' = IF r.hung THEN "hung" ELSE "live"
  /\ nreset' = nreset + 1
  /\ handles' = {}
  /\ UNCHANGED <<registered, dc, dn>>

\* ngx_destroy_pool is entered: c = pool->cleanup
DestroyBegin ==
  /\ phase = "live"
  /\ phase' = "cleanup"
  /\ dc' = cleanup
  /\ dn' = NULL
  /\ Called("destroy", 0, 0, St)
  /\ UNCHANGED <<pool, max, current, large, cleanup, blk, mem, brk, live,
                 nheap, freed, invoked, ranges, registered, handles, nreset,
                 quota>>

\* the address a lies in one of the pool's blocks
InBlock(a) == \E b \in DOMAIN blk : b <= a /\ a < blk[b].end

\* for (c = pool->cleanup; c; c = c->next) if (c->handler) c->handler(c->data);
\* then l = pool->large.  A stale c->next that leads out of the pool's
\* blocks is followed into memory the pool never wrote: the words read are
\* zero, or the process crashes
DestroyCleanupStep ==
  /\ phase = "cleanup"
  /\ \/ /\ dc # NULL /\ ~InBlock(dc)
        /\ phase' = "crashed"
        /\ UNCHANGED <<dc, invoked>>
     \/ /\ dc # NULL
        /\ Rd(mem, dc + OffHandler) # NULL => Len(invoked) < MaxInvoked
        /\ invoked' = IF Rd(mem, dc + OffHandler) # NULL
                        THEN Append(invoked, <<"destroy", dc,
                                               Rd(mem, dc + OffHandler),
                                               Rd(mem, dc + OffData)>>)
                        ELSE invoked
        /\ dc' = Rd(mem, dc + OffCleanupNext)
        /\ UNCHANGED phase
     \/ /\ dc = NULL
        /\ phase' = "large"
        /\ dc' = large
        /\ UNCHANGED invoked
  /\ UNCHANGED <<pool, max, current, large, cleanup, blk, mem, brk, live,
                 nheap, freed, ranges, registered, handles, nreset, dn, quota,
                 call>>

\* a large loop after which the cleanup loop runs again
DestroyLargeStepThenCleanup ==
  /\ phase = "large"
  /\ \/ /\ dc # NULL
        /\ Len(freed) < quota + 2
        /\ LET a == Rd(mem, dc + OffLargeAlloc)
               s == IF a # NULL THEN ngx_free(St, a) ELSE St
           IN freed' = s.freed /\ live' = s.live
        /\ dc' = Rd(mem, dc + OffLargeNext)
        /\ UNCHANGED <<phase, dn>>
     \/ /\ dc = NULL
        /\ phase' = "cleanup"
        /\ dc' = cleanup
        /\ UNCHANGED <<freed, live, dn>>
  /\ UNCHANGED <<pool, max, current, large, cleanup, blk, mem, brk, nheap,
                 invoked, ranges, registered, handles, nreset, quota, call>>

\* for (l = pool->large; l; l = l->next) if (l->alloc) ngx_free(l->alloc);
\* then p = pool, n = pool->d.next
DestroyLargeStep ==
  /\ phase = "large"
  /\ \/ /\ dc # NULL
        /\ Len(freed) < quota + 2
        /\ LET a == Rd(mem, dc + OffLargeAlloc)
               s == IF a # NULL THEN ngx_free(St, a) ELSE St
           IN freed' = s.freed /\ live' = s.live
        /\ dc' = Rd(mem, dc + OffLargeNext)
        /\ UNCHANGED <<phase, dn>>
     \/ /\ dc = NULL
        /\ phase' = "blocks"
        /\ dc' = pool
        /\ dn' = blk[pool].next
        /\ UNCHANGED <<freed, live>>
  /\ UNCHANGED <<pool, max, current, large, cleanup, blk, mem, brk, nheap,
                 invoked, ranges, registered, handles, nreset, quota, call>>

\* a loop that releases the block after the root before the root
DestroyBlockStepRootLater ==
  /\ phase = "blocks"
  /\ LET first == dc = pool /\ dn # NULL /\ dn \in live /\ pool \in live
         s == IF first THEN ngx_free(ngx_free(St, dn), pool)
              ELSE IF dc \in live THEN ngx_free(St, dc) ELSE St
     IN freed' = s.freed /\ live' = s.live
  /\ \/ /\ dn = NULL
        /\ phase' = "destroyed"
        /\ UNCHANGED <<dc, dn>>
     \/ /\ dn # NULL
        /\ dc' = dn
        /\ dn' = blk[dn].next
        /\ UNCHANGED phase
  /\ UNCHANGED <<pool, max, current, large, cleanup, blk, mem, brk, nheap,
                 invoked, ranges, registered, handles, nreset, quota, call>>

\* for (p = pool, n = pool->d.next; ; p = n, n = n->d.next) {
\*     ngx_free(p); if (n == NULL) break; }
DestroyBlockStep ==
  /\ phase = "blocks"
  /\ LET s == ngx_free(St, dc)
     IN freed' = s.freed /\ live' = s.live
  /\ \/ /\ dn = NULL
        /\ phase' = "destroyed"
        /\ UNCHANGED <<dc, dn>>
     \/ /\ dn # NULL
        /\ dc' = dn
        /\ dn' = blk[dn].next
        /\ UNCHANGED phase
  /\ UNCHANGED <<pool, max, current, large, cleanup, blk, mem, brk, nheap,
                 invoked, ranges, registered, handles, nreset, quota, call>>

Next ==
  \/ \E size \in PoolSizes, f \in FailAts : Create(size, f)
  \/ \E size \in AllocSizes, f \in FailAts : Palloc(size, f)
  \/ \E size \in AllocSizes, f \in FailAts : Pnalloc(size, f)
  \/ \E size \in AllocSizes, f \in FailAts : Pcalloc(size, f)
  \/ \E size \in MemalignSizes, a \in MemalignAlignments, f \in FailAts :
       Pmemalign(size, a, f)
  \/ \E p \in PfreeArgs : Pfree(p)
  \/ \E size \in CleanupSizes, f \in FailAts : CleanupAdd(size, f)
  \/ \E c \in handles, h \in Handlers, fd \in Fds : SetHandler(c, h, fd)
  \/ \E fd \in Fds : RunCleanupFile(fd)
  \/ Reset
  \/ DestroyBegin
  \/ DestroyCleanupStep
  \/ DestroyLargeStep
  \/ DestroyBlockStep

Spec == Init /\ [][Next]_vars

\* the allocator alone: no cleanup chain
NextAlloc ==
  \/ \E size \in PoolSizes, f \in FailAts : Create(size, f)
  \/ \E size \in AllocSizes, f \in FailAts : Palloc(size, f)
  \/ \E size \in AllocSizes, f \in FailAts : Pnalloc(size, f)
  \/ \E size \in MemalignSizes, a \in MemalignAlignments, f \in FailAts :
       Pmemalign(size, a, f)
  \/ \E p \in PfreeArgs : Pfree(p)
  \/ Reset
  \/ DestroyBegin
  \/ DestroyCleanupStep
  \/ DestroyLargeStep
  \/ DestroyBlockStep

SpecAlloc == Init /\ [][NextAlloc]_vars

\* the cleanup chain over the pool's life
NextCleanup ==
  \/ \E size \in PoolSizes, f \in FailAts : Create(size, f)
  \/ \E size \in CleanupSizes, f \in FailAts : CleanupAdd(size, f)
  \/ \E c \in handles, h \in Handlers, fd \in Fds : SetHandler(c, h, fd)
  \/ \E fd \in Fds : RunCleanupFile(fd)
  \/ Reset
  \/ DestroyBegin
  \/ DestroyCleanupStep
  \/ DestroyLargeStep
  \/ DestroyBlockStep

SpecCleanup == Init /\ [][NextCleanup]_vars

\* small allocations alone, from a pool of an odd size
NextSmall ==
  \/ \E size \in OddPoolSizes, f \in FailAts : Create(size, f)
  \/ \E size \in SmallSizes, f \in FailAts : Palloc(size, f)
  \/ \E size \in SmallSizes, f \in FailAts : Pnalloc(size, f)
  \/ Reset
  \/ DestroyBegin
  \/ DestroyCleanupStep
  \/ DestroyLargeStep
  \/ DestroyBlockStep

SpecSmall == Init /\ [][NextSmall]_vars

\* a pool with large allocations and a cleanup chain, up to its destruction
NextDestroy ==
  \/ \E size \in PoolSizes, f \in FailAts : Create(size, f)
  \/ \E size \in AllocSizes, f \in FailAts : Palloc(size, f)
  \/ \E size \in CleanupSizes, f \in FailAts : CleanupAdd(size, f)
  \/ \E c \in handles, h \in Handlers, fd \in Fds : SetHandler(c, h, fd)
  \/ Reset
  \/ DestroyBegin
  \/ DestroyCleanupStep
  \/ DestroyLargeStep
  \/ DestroyBlockStep

SpecDestroy == Init /\ [][NextDestroy]_vars

\* large allocations and ngx_pfree alone, with room for a long large list
NextLarge ==
  \/ \E size \in LargePoolSizes : Create(size, 0)
  \/ \E size \in LargeSizes : Palloc(size, 0)
  \/ \E p \in Attached(mem, large) : Pfree(p)

SpecLarge == Start(MaxHeapLong) /\ [][NextLarge]_vars

\* small allocations alone, with room for a long chain of blocks
NextGrow ==
  \/ \E size \in GrowPoolSizes : Create(size, 0)
  \/ \E size \in GrowSizes, f \in 0 .. 1 : Palloc(size, f)

SpecGrow == Start(MaxHeapLong) /\ [][NextGrow]_vars

\* every operation but ngx_reset_pool and ngx_destroy_pool
NextCalls ==
  \/ \E size \in PoolSizes, f \in FailAts : Create(size, f)
  \/ \E size \in AllocSizes, f \in FailAts : Palloc(size, f)
  \/ \E size \in AllocSizes, f \in 0 .. 1 : Pnalloc(size, f)
  \/ \E size \in AllocSizes, f \in 0 .. 1 : Pcalloc(size, f)
  \/ \E size \in MemalignSizes, a \in MemalignAlignments, f \in FailAts :
       Pmemalign(size, a, f)
  \/ \E p \in Attached(mem, large) \cup {NULL} : Pfree(p)
  \/ \E size \in CleanupSizes \cup MemalignSizes, f \in FailAts :
       CleanupAdd(size, f)
  \/ \E c \in handles, h \in Handlers, fd \in Fds : SetHandler(c, h, fd)
  \/ \E fd \in Fds : RunCleanupFile(fd)

SpecCalls == Init /\ [][NextCalls]_vars

\* the state before any pool exists, as the operators pass it along
NoPool(q) ==
  [pool |-> NULL, max |-> 0, current |-> NULL, large |-> NULL,
   cleanup |-> NULL, blk |-> <<>>, mem |-> <<>>, brk |-> HeapBase,
   live |-> {}, nheap |-> 0, freed |-> <<>>, invoked |-> <<>>,
   ranges |-> <<>>, quota |-> q, calls |-> 0, failAt |-> 0]

\* s after n more calls of ngx_palloc(pool, size)
RECURSIVE PallocTimes(_, _, _)
PallocTimes(s, size, n) ==
  IF n = 0 THEN s
  ELSE PallocTimes([ngx_palloc(s, size).s EXCEPT !.calls = 0], size, n - 1)

\* a pool of GrowPoolSizes whose chain has grown AgedGrowths times, one
\* allocation of the larger of GrowSizes in each block: the next growth
\* moves pool->current off the root
AgedPool ==
  LET size == CHOOSE x \in GrowPoolSizes : TRUE
      big == CHOOSE x \in GrowSizes : \A y \in GrowSizes : y <= x
  IN PallocTimes(ngx_create_pool(NoPool(AgedGrowths + 1 + MaxHeap), size).s,
                 big, AgedGrowths + 1)

Aged ==
  /\ phase = "live"
  /\ pool = AgedPool.pool /\ max = AgedPool.max
  /\ current = AgedPool.current
  /\ large = AgedPool.large /\ cleanup = AgedPool.cleanup
  /\ blk = AgedPool.blk /\ mem = AgedPool.mem
  /\ brk = AgedPool.brk /\ live = AgedPool.live /\ nheap = AgedPool.nheap
  /\ freed = <<>> /\ invoked = <<>> /\ ranges = AgedPool.ranges
  /\ registered = <<>> /\ handles = {}
  /\ nreset = 0 /\ dc = NULL /\ dn = NULL
  /\ quota = AgedPool.quota
  /\ call = [op |-> "palloc", arg |-> AgedPool.ranges[Len(AgedPool.ranges)][2],
             ret |-> AgedPool.ranges[Len(AgedPool.ranges)][1], calls |-> 1,
             afterFree |-> FALSE]

\* after a reset the caller makes MaxRanges small allocations at most
AfterResetRoom == nreset = 0 \/ Len(ranges) < MaxRanges

\* every operation but ngx_destroy_pool, on a new pool and on an aged one
NextChain ==
  \/ \E size \in GrowPoolSizes : Create(size, 0)
  \/ \E size \in ChainSizes, f \in 0 .. 1 :
       AfterResetRoom /\ Palloc(size, f)
  \/ \E size \in ChainSizes : AfterResetRoom /\ Pnalloc(size, 0)
  \/ \E size \in MemalignSizes, a \in MemalignAlignments :
       AfterResetRoom /\ Pmemalign(size, a, 0)
  \/ \E p \in Attached(mem, large) : Pfree(p)
  \/ AfterResetRoom /\ CleanupAdd(0, 0)
  \/ Reset

SpecChain == (Start(MaxHeap) \/ Aged) /\ [][NextChain]_vars

(***************************************************************************)
(* C1: the byte ranges returned by small allocations since the last reset  *)
(* are pairwise non-overlapping, and every address the aligned variant     *)
(* returned is a multiple of NGX_ALIGNMENT.                                *)
(***************************************************************************)
Overlap(r1, r2) == r1[1] < r2[1] + r2[2] /\ r2[1] < r1[1] + r1[2]

C1_DisjointAligned ==
  /\ \A i, j \in 1 .. Len(ranges) : i # j => ~Overlap(ranges[i], ranges[j])
  /\ \A i \in 1 .. Len(ranges) :
       ranges[i][3] => ranges[i][1] % NGX_ALIGNMENT = 0

(***************************************************************************)
(* What the claims below speak of                                          *)
(***************************************************************************)
\* the nodes of pool->large, head first
LargeNodes == LargeList(mem, large).nodes

\* the step is a successful ngx_palloc or ngx_pnalloc of a size > pool->max
LargeAllocStep ==
  /\ phase = "live"
  /\ call' # call
  /\ call'.op \in {"palloc", "pnalloc"}
  /\ call'.arg > max
  /\ call'.ret # NULL

\* the nodes of the large list whose payload is p, after the step
HoldersAfter(p) ==
  LET w == LargeList(mem', large')
  IN {i \in 1 .. Len(w.nodes) : Rd(mem', w.nodes[i] + OffLargeAlloc) = p}

\* after the step, p .. p + size lies in no block of the chain
OutsideBlocksAfter(p, size) ==
  \A b \in DOMAIN blk' : p + size <= b \/ blk'[b].end <= p

\* the step attached a fresh payload of the underlying allocator to one node
LargeAllocAttached ==
  /\ Cardinality(HoldersAfter(call'.ret)) = 1
  /\ call'.ret \in live' \ live
  /\ OutsideBlocksAfter(call'.ret, call'.arg)

(***************************************************************************)
(* C2, as claimed: a successful allocation of a size > pool->max returns   *)
(* the payload of exactly one node of pool->large, obtained from the       *)
(* underlying allocator and lying in no block, and advances no block's     *)
(* last by more than the size of one large node.                           *)
(***************************************************************************)
C2_Original ==
  [][LargeAllocStep =>
       /\ LargeAllocAttached
       /\ \A b \in DOMAIN blk : blk'[b].last - blk[b].last <= SizeofLarge]_vars

(***************************************************************************)
(* C2, amended: as claimed, but a block's last is advanced by at most the  *)
(* size of one large node plus the padding (less than NGX_ALIGNMENT) that  *)
(* aligns the node; the call adds one block at most, and a block it adds   *)
(* holds that one node only.                                               *)
(***************************************************************************)
C2_LargeTracked ==
  [][LargeAllocStep =>
       /\ LargeAllocAttached
       /\ \A b \in DOMAIN blk :
            blk'[b].last - blk[b].last <= SizeofLarge + (NGX_ALIGNMENT - 1)
       /\ Cardinality(DOMAIN blk' \ DOMAIN blk) <= 1
       /\ \A b \in DOMAIN blk' \ DOMAIN blk :
            blk'[b].last = ngx_align_ptr(b + SizeofPoolData, NGX_ALIGNMENT)
                             + SizeofLarge]_vars

\* a large allocation whose node was carved after padding the cursor
C2_Witness ==
  /\ phase = "live"
  /\ call.op \in {"palloc", "pnalloc"} /\ call.arg > max /\ call.ret # NULL
  /\ large # NULL /\ Rd(mem, large + OffLargeAlloc) = call.ret
  /\ \E i \in 2 .. Len(ranges) :
       /\ ranges[i] = <<large, SizeofLarge, TRUE>>
       /\ large - (ranges[i - 1][1] + ranges[i - 1][2]) \in 1 .. (NGX_ALIGNMENT - 1)

(***************************************************************************)
(* C5: when pool->large holds fewer than 4 nodes, one of them vacated by   *)
(* an ngx_pfree that released its payload, the next large allocation       *)
(* through ngx_palloc or ngx_pnalloc attaches its payload to a vacated     *)
(* node: the nodes of pool->large are the same and no block's last moves.  *)
(***************************************************************************)
\* the nodes of pool->large that ngx_pfree has vacated
Vacated == {i \in 1 .. Len(LargeNodes) :
              Rd(mem, LargeNodes[i] + OffLargeAlloc) = NULL}

C5_SlotReused ==
  [][(LargeAllocStep /\ Len(LargeNodes) < 4 /\ Vacated # {}) =>
       /\ LargeList(mem', large').nodes = LargeNodes
       /\ \E i \in Vacated :
            mem' = Wr(mem, LargeNodes[i] + OffLargeAlloc, call'.ret)
       /\ blk' = blk]_vars

\* a large allocation right after a successful ngx_pfree, whose payload went
\* to the node that ngx_pfree vacated
C5_Witness ==
  /\ phase = "live"
  /\ call.op \in {"palloc", "pnalloc"} /\ call.arg > max /\ call.ret # NULL
  /\ call.afterFree
  /\ Len(LargeNodes) \in 1 .. 3
  /\ \E i \in 1 .. Len(LargeNodes) :
       Rd(mem, LargeNodes[i] + OffLargeAlloc) = call.ret

PfreeStep == phase = "live" /\ call' # call /\ call'.op = "pfree"

\* the pool as ngx_pfree may change it, left as it was
PoolUnchanged ==
  UNCHANGED <<pool, max, current, large, cleanup, blk, mem, live, freed>>

\* ngx_pfree found p: released once, its node vacated and still linked
PfreeReleased(p) ==
  /\ p \in Attached(mem, large)
  /\ freed' = Append(freed, p)
  /\ live' = live \ {p}
  /\ LargeList(mem', large').nodes = LargeNodes
  /\ \E i \in 1 .. Len(LargeNodes) :
       /\ Rd(mem, LargeNodes[i] + OffLargeAlloc) = p
       /\ mem' = Wr(mem, LargeNodes[i] + OffLargeAlloc, NULL)
  /\ UNCHANGED <<pool, max, current, large, cleanup, blk>>

(***************************************************************************)
(* C6: ngx_pfree succeeds only on a payload that is attached to a node     *)
(* of pool->large, which it releases once, leaving the node linked with    *)
(* alloc absent; for any other pointer, and for the same pointer a second  *)
(* time, it returns NGX_DECLINED and changes nothing.                      *)
(***************************************************************************)
C6_FreeOnlyAttached ==
  [][PfreeStep =>
       /\ phase' = "live"
       /\ call'.ret = NGX_OK => PfreeReleased(call'.arg)
       /\ call'.arg \notin Attached(mem, large) =>
            call'.ret = NGX_DECLINED /\ PoolUnchanged
       /\ (FreedPayload(call) /\ call'.arg = call.arg) =>
            call'.ret = NGX_DECLINED]_vars

(***************************************************************************)
(* The cleanup chain, as the claims below speak of it                      *)
(***************************************************************************)
CleanupNodes == CleanupList(mem, cleanup).nodes

Reverse(seq) == [i \in 1 .. Len(seq) |-> seq[Len(seq) + 1 - i]]

\* the invocations ngx_destroy_pool made
DestroyInvoked ==
  LET ByDestroy(e) == e[1] = "destroy" IN SelectSeq(invoked, ByDestroy)

\* no node of seq (a sequence of invocations) occurs twice in it
OncePerNode(seq) ==
  \A i, j \in 1 .. Len(seq) : i # j => seq[i][2] # seq[j][2]

\* what ngx_destroy_pool is to invoke: the nodes handed out, last first,
\* whose handler is set
DestroyExpected ==
  LET nodes == Reverse([i \in 1 .. Len(registered) |-> registered[i][1]])
      Armed(c) == Rd(mem, c + OffHandler) # NULL
      armed == SelectSeq(nodes, Armed)
  IN [i \in 1 .. Len(armed) |->
        <<"destroy", armed[i], Rd(mem, armed[i] + OffHandler),
          Rd(mem, armed[i] + OffData)>>]

CleanupLoopDone == phase \in {"large", "blocks", "destroyed"}

(***************************************************************************)
(* C3: ngx_destroy_pool invokes the handler of every cleanup node whose    *)
(* handler is set, once each, with the node's data, the node added last    *)
(* first, and invokes no node whose handler is empty.                      *)
(***************************************************************************)
C3_DestroyRunsEachOnce ==
  /\ OncePerNode(DestroyInvoked)
  /\ CleanupLoopDone => DestroyInvoked = DestroyExpected

(***************************************************************************)
(* C4: ngx_pool_run_cleanup_file invokes the handler of the first node,    *)
(* head to tail, whose handler is ngx_pool_cleanup_file and whose data     *)
(* holds fd, and of no other, and clears that node's handler; when no node *)
(* matches it invokes nothing and changes nothing.  Over cleanup_add and   *)
(* run_cleanup_file calls followed by a destroy, no node's handler is      *)
(* invoked more than once.                                                 *)
(***************************************************************************)
RunFileStep == phase = "live" /\ call'.op = "run_cleanup_file"

\* what ngx_pool_run_cleanup_file(pool, fd) is to do
RunFileEffect(fd) ==
  LET matching == {i \in 1 .. Len(CleanupNodes) :
                     FileMatch(mem, CleanupNodes[i], fd)}
  IN IF matching # {}
       THEN \E i \in matching :
              /\ \A j \in matching : i <= j
              /\ invoked' = Append(invoked,
                                   <<"file", CleanupNodes[i], NgxPoolCleanupFile,
                                     Rd(mem, CleanupNodes[i] + OffData)>>)
              /\ mem' = Wr(mem, CleanupNodes[i] + OffHandler, NULL)
       ELSE UNCHANGED <<invoked, mem>>

\* in a run without a reset, no node was invoked twice
InvokedOnce == nreset = 0 => OncePerNode(invoked)

C4_FirstMatchOnce ==
  [][/\ RunFileStep =>
          /\ RunFileEffect(call'.arg)
          /\ UNCHANGED <<pool, max, current, large, cleanup, blk, live, freed>>
     /\ InvokedOnce']_vars

\* two nodes were armed for the same descriptor: the call ran the one at
\* the head and left the other armed
C4_Witness ==
  /\ phase = "live" /\ nreset = 0
  /\ call.op = "run_cleanup_file"
  /\ Len(CleanupNodes) = 2
  /\ Rd(mem, CleanupNodes[1] + OffHandler) = NULL
  /\ FileMatch(mem, CleanupNodes[2], call.arg)
  /\ invoked = <<<<"file", CleanupNodes[1], NgxPoolCleanupFile,
                   Rd(mem, CleanupNodes[1] + OffData)>>>>
  /\ Rd(mem, Rd(mem, CleanupNodes[1] + OffData) + OffFd) = call.arg

(***************************************************************************)
(* C10: an ngx_pool_cleanup_add that fails leaves pool->cleanup and every  *)
(* linked node as they were; one that succeeds links exactly one new node  *)
(* at the head, its handler NULL and its data NULL exactly when size is 0. *)
(***************************************************************************)
CleanupAddStep == phase = "live" /\ call'.op = "cleanup_add"

\* the three words of the cleanup node c
NodeWords(m, c) ==
  <<Rd(m, c + OffHandler), Rd(m, c + OffData), Rd(m, c + OffCleanupNext)>>

C10_CleanupAddAtomic ==
  [][CleanupAddStep =>
       /\ \A i \in 1 .. Len(CleanupNodes) :
            NodeWords(mem', CleanupNodes[i]) = NodeWords(mem, CleanupNodes[i])
       /\ IF call'.ret = NULL
            THEN cleanup' = cleanup
            ELSE /\ cleanup' = call'.ret
                 /\ ~CleanupList(mem', cleanup').cyclic
                 /\ CleanupList(mem', cleanup').nodes
                      = <<call'.ret>> \o CleanupNodes
                 /\ Rd(mem', call'.ret + OffHandler) = NULL
                 /\ (Rd(mem', call'.ret + OffData) = NULL <=> call'.arg = 0)]_vars

(***************************************************************************)
(* C7: after ngx_reset_pool, pool->current is the root block, pool->large  *)
(* and pool->cleanup are NULL, and the reset invoked no handler; a destroy *)
(* that follows invokes only nodes added after the reset.                  *)
(***************************************************************************)
ResetStep == phase = "live" /\ nreset' = nreset + 1

C7_ResetClears ==
  [][/\ ResetStep =>
          /\ current' = pool /\ large' = NULL /\ cleanup' = NULL
          /\ invoked' = invoked
     /\ (phase = "cleanup" /\ invoked' # invoked) =>
          \E i \in 1 .. Len(registered) : registered[i] = <<dc, nreset>>]_vars

(***************************************************************************)
(* C8: ngx_reset_pool releases no block and leaves the chain, its order    *)
(* and the blocks' ends as they were; afterwards every block has failed 0  *)
(* and last at its own data start (past the ngx_pool_t for the root, past  *)
(* the ngx_pool_data_t, where ngx_palloc_block started, for the others),   *)
(* and every payload that was attached has been released.                  *)
(***************************************************************************)
\* where the data of block b starts
DataStart(b) ==
  IF b = pool THEN b + SizeofPool
  ELSE ngx_align_ptr(b + SizeofPoolData, NGX_ALIGNMENT)

\* the pointers the step passed to ngx_free
ReleasedByStep == SubSeq(freed', Len(freed) + 1, Len(freed'))

C8_ResetRewinds ==
  [][ResetStep =>
       /\ DOMAIN blk' = DOMAIN blk
       /\ BlockChain(blk', pool') = BlockChain(blk, pool)
       /\ \A b \in DOMAIN blk :
            /\ blk'[b].end = blk[b].end /\ blk'[b].next = blk[b].next
            /\ b \in live'
            /\ blk'[b].failed = 0
            /\ blk'[b].last = DataStart(b)
       /\ \A p \in Attached(mem, large) :
            Cardinality({i \in 1 .. Len(ReleasedByStep) :
                           ReleasedByStep[i] = p}) = 1]_vars

(***************************************************************************)
(* C9                                                                      *)
(***************************************************************************)
\* the blocks among the pointers released, in the order of their release
BlocksFreed ==
  LET IsBlock(p) == p \in DOMAIN blk IN SelectSeq(freed, IsBlock)

EachBlockFreedOnce ==
  \A b \in DOMAIN blk :
    Cardinality({i \in 1 .. Len(freed) : freed[i] = b}) = 1

(***************************************************************************)
(* C9, as claimed: ngx_destroy_pool releases every block once, the root    *)
(* block last.                                                             *)
(***************************************************************************)
C9_Original ==
  phase = "destroyed" => EachBlockFreedOnce /\ freed[Len(freed)] = pool

(***************************************************************************)
(* C9, amended: ngx_destroy_pool releases every block once, in chain       *)
(* order: the root block first, no block before its predecessor.           *)
(***************************************************************************)
C9_ChainOrder ==
  /\ phase = "destroyed" =>
       /\ EachBlockFreedOnce
       /\ BlocksFreed = BlockChain(blk, pool)
       /\ BlocksFreed[1] = pool
  /\ phase = "blocks" =>
       \E k \in 0 .. Len(BlockChain(blk, pool)) :
         BlocksFreed = SubSeq(BlockChain(blk, pool), 1, k)

\* a pool of two blocks or more, destroyed
C9_Witness == phase = "destroyed" /\ Len(BlockChain(blk, pool)) >= 2


(***************************************************************************)
(* C11: within ngx_destroy_pool every handler invocation precedes the      *)
(* release of any large payload, every release of a large payload precedes *)
(* the release of any block, and nothing is read from a block (a d.next, a *)
(* large node, a cleanup node) after that block was released.              *)
(***************************************************************************)
DestroyStep == phase \in {"cleanup", "large", "blocks"}

\* the loops of ngx_destroy_pool, in the order of the code
LoopRank(ph) ==
  CASE ph = "cleanup" -> 1 [] ph = "large" -> 2 [] ph = "blocks" -> 3
    [] OTHER -> 4

\* the address a lies in a block that has been released
InReleasedBlock(a) ==
  \E b \in DOMAIN blk : b \notin live /\ b <= a /\ a < blk[b].end

C11_DestroyOrdered ==
  [][DestroyStep =>
       /\ LoopRank(phase') >= LoopRank(phase)
       /\ invoked' # invoked => phase = "cleanup" /\ freed' = freed
       /\ freed' # freed =>
            /\ Len(ReleasedByStep) = 1
            /\ \/ phase = "large" /\ ReleasedByStep[1] \notin DOMAIN blk
               \/ phase = "blocks" /\ ReleasedByStep[1] \in DOMAIN blk
       \* the step reads the node c or l
       /\ (phase \in {"cleanup", "large"} /\ dc # NULL) => ~InReleasedBlock(dc)
       \* the step reads pool->large, or pool->d.next, when a loop ends
       /\ (phase' # phase /\ phase # "blocks") => pool \in live
       \* the step releases p and then reads n->d.next
       /\ (phase = "blocks" /\ dn # NULL) => dn \in live']_vars

\* a pool of two blocks destroyed after a handler ran and a payload was
\* released
C11_Witness ==
  /\ phase = "destroyed"
  /\ DestroyInvoked # <<>>
  /\ Len(BlocksFreed) >= 2
  /\ \E i \in 1 .. Len(freed) : freed[i] \notin DOMAIN blk

(***************************************************************************)
(* C12, as claimed: a large allocation reuses a vacated node (no new node, *)
(* the list as long as before) exactly when one of the first 4 nodes of    *)
(* pool->large is vacated; otherwise it puts a new node at the head, even  *)
(* if the node at position 5 or later is vacated.                          *)
(***************************************************************************)
\* the step left the nodes of pool->large as they were and stored the
\* payload in the vacated node at position i
ReusedAt(i) ==
  /\ LargeList(mem', large').nodes = LargeNodes
  /\ i \in Vacated
  /\ Rd(mem', LargeNodes[i] + OffLargeAlloc) = call'.ret

\* the step put one new node, holding the payload, before the old ones
InsertedAtHead ==
  /\ LargeList(mem', large').nodes = <<large'>> \o LargeNodes
  /\ \A i \in 1 .. Len(LargeNodes) : LargeNodes[i] # large'
  /\ Rd(mem', large' + OffLargeAlloc) = call'.ret
  /\ \A i \in 1 .. Len(LargeNodes) :
       Rd(mem', LargeNodes[i] + OffLargeAlloc)
         = Rd(mem, LargeNodes[i] + OffLargeAlloc)

\* the first vacated position among the first k nodes, 0 when none
FirstVacated(k) ==
  FirstTrue([i \in 1 .. Len(LargeNodes) |-> i \in Vacated /\ i <= k])

Chain == BlockChain(blk, pool)

\* the position of block b in the chain, 0 when it is not in it
ChainIndex(b) == FirstTrue([i \in 1 .. Len(Chain) |-> Chain[i] = b])

\* the step linked one new block
GrowStep ==
  /\ phase = "live"
  /\ call' # call
  /\ Cardinality(DOMAIN blk' \ DOMAIN blk) = 1

\* the new block is appended after the old tail, the old blocks keep their
\* links and the ones before pool->current are unchanged
GrowAppends ==
  /\ \E new \in DOMAIN blk' \ DOMAIN blk :
       BlockChain(blk', pool') = Append(Chain, new)
  /\ \A i \in 1 .. (ChainIndex(current) - 1) : blk'[Chain[i]] = blk[Chain[i]]

\* the positions from pool->current to hi are the ones whose counter grew
FailedRaised(hi) ==
  \A i \in 1 .. Len(Chain) :
    blk'[Chain[i]].failed =
      blk[Chain[i]].failed
        + (IF ChainIndex(current) <= i /\ i <= hi THEN 1 ELSE 0)

\* pool->current is left after the last of the positions in passed, or
\* where it was when there is none
CurrentAfter(passed) ==
  current' = IF passed = {} THEN current
             ELSE Chain[1 + CHOOSE i \in passed : \A j \in passed : j <= i]

RECURSIVE ChainWalk(_, _, _)
ChainWalk(b, p, seen) ==
  IF p = NULL THEN [nodes |-> seen, cyclic |-> FALSE]
  ELSE IF p \notin DOMAIN b \/ \E i \in 1 .. Len(seen) : seen[i] = p
    THEN [nodes |-> seen, cyclic |-> TRUE]
  ELSE ChainWalk(b, b[p].next, Append(seen, p))

IsPrefix(a, b) == Len(a) <= Len(b) /\ SubSeq(b, 1, Len(a)) = a

C14_ChainWellFormed ==
  [][phase' = "live" =>
       LET before == ChainWalk(blk, pool, <<>>).nodes
           after == ChainWalk(blk', pool', <<>>)
       IN /\ ~after.cyclic
          /\ after.nodes # <<>> /\ after.nodes[1] = pool'
          /\ {after.nodes[i] : i \in 1 .. Len(after.nodes)} = DOMAIN blk'
          /\ phase = "live" => IsPrefix(before, after.nodes)
          /\ current' \in DOMAIN blk'
          /\ phase = "live" => current' \notin DOMAIN blk' \ DOMAIN blk]_vars

\* a call has just appended a block, and pool->current, which growth has
\* moved off the root, is an earlier block of the chain
C14_Witness ==
  /\ phase = "live"
  /\ current # pool /\ ChainIndex(current) \in 2 .. (Len(Chain) - 1)
  /\ call.op \in {"palloc", "pnalloc", "cleanup_add"} /\ call.calls = 1
  /\ call.ret = DataStart(Chain[Len(Chain)])

(***************************************************************************)
(* C15: when a large allocation (ngx_palloc or ngx_pnalloc of a size above *)
(* pool->max, or ngx_pmemalign) was granted its payload and then got no    *)
(* large node from ngx_palloc_small, the call returns NULL, the payload is *)
(* passed to ngx_free once and nothing else is, and pool->large,           *)
(* pool->current, the blocks and the pool's memory are as before the call. *)
(***************************************************************************)
\* the step is a large allocation that was granted memory and returned NULL
LargeNodeFailedStep ==
  /\ phase = "live"
  /\ call' # call
  /\ \/ call'.op \in {"palloc", "pnalloc"} /\ call'.arg > max
     \/ call'.op = "pmemalign"
  /\ nheap' = nheap + 1
  /\ call'.ret = NULL

C15_NodeFailureUndone ==
  [][LargeNodeFailedStep =>
       /\ Len(ReleasedByStep) = 1
       /\ ReleasedByStep[1] >= brk /\ ReleasedByStep[1] < brk'
       /\ ReleasedByStep[1] \notin DOMAIN blk'
       /\ live' = live
       /\ large' = large /\ current' = current
       /\ blk' = blk /\ mem' = mem
       /\ pool' = pool /\ max' = max /\ cleanup' = cleanup]_vars

\* an ngx_pmemalign that made three calls into the underlying allocator,
\* the last of them the ngx_free of the payload, and returned NULL
C15_Witness ==
  /\ phase = "live"
  /\ call.op = "pmemalign" /\ call.ret = NULL /\ call.calls = 3
  /\ freed # <<>> /\ freed[Len(freed)] \notin live
  /\ freed[Len(freed)] \notin DOMAIN blk

(***************************************************************************)
(* C16: an ngx_palloc or ngx_pnalloc of a size up to pool->max is served   *)
(* from the first block, from pool->current on, whose room (d.end minus    *)
(* d.last, aligned for ngx_palloc) is at least the size; only that block's *)
(* d.last changes; the underlying allocator is called only when no block   *)
(* from pool->current to the tail has room.                                *)
(***************************************************************************)
\* the step is an ngx_palloc or ngx_pnalloc of a size up to pool->max
SmallAllocStep ==
  /\ phase = "live"
  /\ call' # call
  /\ call'.op \in {"palloc", "pnalloc"}
  /\ call'.arg <= max

\* where the step's allocation starts in block b
Cursor(b) ==
  IF call'.op = "palloc" THEN ngx_align_ptr(blk[b].last, NGX_ALIGNMENT)
  ELSE blk[b].last

\* the positions, from pool->current on, of the blocks with room
WithRoom ==
  {i \in ChainIndex(current) .. Len(Chain) :
     blk[Chain[i]].end - Cursor(Chain[i]) >= call'.arg}

C16_FirstFit ==
  [][SmallAllocStep =>
       IF WithRoom # {}
         THEN LET b == Chain[CHOOSE i \in WithRoom : \A j \in WithRoom : i <= j]
              IN /\ call'.ret = Cursor(b)
                 /\ blk' = [blk EXCEPT ![b].last = Cursor(b) + call'.arg]
                 /\ current' = current
                 /\ call'.calls = 0
         ELSE /\ call'.calls = 1
              /\ call'.ret # NULL =>
                   \E new \in DOMAIN blk' \ DOMAIN blk :
                     /\ DOMAIN blk' = DOMAIN blk \cup {new}
                     /\ call'.ret = DataStart(new)]_vars

(***************************************************************************)
(* C17, as claimed: every call of ngx_create_pool, ngx_palloc,             *)
(* ngx_pnalloc, ngx_pcalloc, ngx_pmemalign, ngx_pfree,                     *)
(* ngx_pool_cleanup_add and ngx_pool_run_cleanup_file makes one call into  *)
(* the underlying allocator at most.                                       *)
(***************************************************************************)
\* the step is a call of one of the operations
CallStep ==
  /\ call' # call
  /\ call'.op \in {"create", "palloc", "pnalloc", "pcalloc", "pmemalign",
                    "pfree", "cleanup_add", "run_cleanup_file"}

C17_Original == [][CallStep => call'.calls <= 1]_vars

(***************************************************************************)
(* C17, amended: ngx_create_pool, ngx_pfree and an allocation of a size up *)
(* to pool->max make one call into the underlying allocator at most and    *)
(* ngx_pool_run_cleanup_file makes none; an allocation of a size above     *)
(* pool->max and ngx_pmemalign make three at most (the payload, a block    *)
(* for the large node, the release of the payload when the block is not    *)
(* granted); ngx_pool_cleanup_add makes what its allocations make, the     *)
(* one of the node and, for a size that is not 0, the one of the data.     *)
(***************************************************************************)
\* the most calls an allocation of the size makes, pool->max being mx
AllocCalls(size, mx) == IF size <= mx THEN 1 ELSE 3

CallsLimit(op, arg, mx) ==
  CASE op \in {"create", "pfree"} -> 1
    [] op \in {"palloc", "pnalloc", "pcalloc"} -> AllocCalls(arg, mx)
    [] op = "pmemalign" -> 3
    [] op = "cleanup_add" ->
         AllocCalls(SizeofCleanup, mx)
           + (IF arg = 0 THEN 0 ELSE AllocCalls(arg, mx))
    [] OTHER -> 0

C17_CallsBounded ==
  [][CallStep => call'.calls <= CallsLimit(call'.op, call'.arg, max')]_vars

\* an ngx_pool_cleanup_add that succeeded after two calls into the
\* underlying allocator
C17_Witness ==
  /\ phase = "live"
  /\ call.op = "cleanup_add" /\ call.ret # NULL /\ call.calls >= 2

(***************************************************************************)
(* C18: whatever the size the pool was created with, in every state of a   *)
(* live pool every block has its d.last between the end of its header and  *)
(* its d.end, pool->max is at most the (size_t) data capacity of the root, *)
(* and every small allocation since the reset lies between the end of the  *)
(* header and the d.end of one block.                                      *)
(***************************************************************************)
C18_BlocksBounded ==
  phase = "live" =>
    /\ \A b \in DOMAIN blk :
         DataStart(b) <= blk[b].last /\ blk[b].last <= blk[b].end
    /\ max <= SizeT(blk[pool].end - pool - SizeofPool)
    /\ \A i \in 1 .. Len(ranges) :
         \E b \in DOMAIN blk :
           /\ DataStart(b) <= ranges[i][1]
           /\ ranges[i][1] + ranges[i][2] <= blk[b].end

(***************************************************************************)
(* C19: every pointer passed to ngx_free was granted by the underlying     *)
(* allocator, before the call or by it, and has not been released before,  *)
(* so that no payload is released twice, by ngx_pfree, ngx_reset_pool or   *)
(* ngx_destroy_pool; the payloads attached to pool->large of a live pool   *)
(* are unreleased; and when ngx_destroy_pool has ended nothing granted is  *)
(* left unreleased.                                                        *)
(***************************************************************************)
C19_PayloadReleasedOnce ==
  [][/\ \A i \in 1 .. Len(ReleasedByStep) :
          /\ \/ ReleasedByStep[i] \in live
             \/ /\ nheap' > nheap
                /\ brk <= ReleasedByStep[i] /\ ReleasedByStep[i] < brk'
          /\ ReleasedByStep[i] \notin live'
          /\ \A j \in 1 .. Len(ReleasedByStep) :
               ReleasedByStep[j] = ReleasedByStep[i] => j = i
          /\ \A j \in 1 .. Len(freed) : freed[j] # ReleasedByStep[i]
     /\ phase' = "live" => Attached(mem', large') \subseteq live'
     /\ phase' = "destroyed" => live' = {}]_vars

\* a destroyed pool, two of whose payloads were released: one before
\* ngx_destroy_pool, by ngx_pfree or ngx_reset_pool, one by it
C19_Witness ==
  /\ phase = "destroyed" /\ live = {}
  /\ call.op = "destroy"
  /\ \E i, j \in 1 .. Len(freed) :
       /\ i < j /\ freed[i] \notin DOMAIN blk /\ freed[j] \notin DOMAIN blk
       /\ j + Len(Chain) = Len(freed)

====
